---- MODULE Spec2Model ----
(***************************************************************************)
(* rchan: PKGBUILD update checker and batch builder.                       *)
(*                                                                         *)
(*   pkgbuild.rs  parse_pkgbuild, parse_local, parse_remote, Display       *)
(*   config.rs    RchanConfig::from_file                                   *)
(*   scanner.rs   scan_directory, check_package                            *)
(*   builder.rs   run_build, copy_dir_contents, clean_dir                  *)
(*   main.rs      main (dispatch, report, exit status)                     *)
(*                                                                         *)
(* A text is a sequence of one-character strings.  A name is a sequence of *)
(* byte values, compared the way Rust compares String.                     *)
(***************************************************************************)
EXTENDS Integers, Sequences, FiniteSets, TLC

VARIABLES
    text,        \* parse_pkgbuild: the content argument
    parsed,      \* parse_pkgbuild: the returned Result<PkgVersion>
    dirEntries,  \* scan: what read_dir(base) yields, in enumeration order
    pos,         \* scan: index of the entry the for loop is at
    cp,          \* scan: position inside scan_directory / check_package
    config,      \* check_package: the loaded RchanConfig
    localVer,    \* check_package: local_ver
    remoteVer,   \* check_package: remote_ver
    results,     \* scan_directory: results
    scanRet,     \* scan_directory: the returned Result
    httpGets,    \* names for which reqwest::blocking::get was called
    stepLog,     \* <<name, step>> for every check_package step executed
    report,      \* main: what was printed (counts of the summary)
    exitCode,    \* process exit status, -1 while running
    pkgQueue,    \* run_build: entries, after filter and sort
    bpos,        \* run_build: index i of the for loop
    bpc,         \* run_build: position
    buildDir,    \* contents of base/build
    pkgsDir,     \* contents of base/pkgs
    successCount,\* run_build: success_count
    failCount,   \* run_build: fail_count
    buildRet,    \* run_build: the returned Result
    launched     \* for each started makepkg: <<name, buildDir at start>>

parseVars == <<text, parsed>>
scanVars  == <<dirEntries, pos, cp, config, localVer, remoteVer, results, scanRet,
               httpGets, stepLog, report>>
buildVars == <<pkgQueue, bpos, bpc, buildDir, pkgsDir, successCount,
               failCount, buildRet, launched>>
vars == <<parseVars, scanVars, buildVars, exitCode>>

(***************************************************************************)
(* pkgbuild.rs                                                             *)
(***************************************************************************)

Digit == {"0", "1", "2", "3", "4", "5", "6", "7", "8", "9"}
DigitOrDot == Digit \cup {"."}

KeyVer == <<"p", "k", "g", "v", "e", "r", "=">>
KeyRel == <<"p", "k", "g", "r", "e", "l", "=">>

ErrNoPkgver == "Failed to find pkgver in PKGBUILD"
ErrNoPkgrel == "Failed to find pkgrel in PKGBUILD"

\* Option::None of a capture
NoCapture == <<"None">>

\* (?m)^ : the start of the haystack or the position after a line feed
LineStartAnywhere(t, i) == TRUE
IsLineStart(t, i) == i = 1 \/ t[i - 1] = "\n"

HasLiteralAt(t, i, lit) ==
    /\ i + Len(lit) - 1 <= Len(t)
    /\ SubSeq(t, i, i + Len(lit) - 1) = lit

\* greedy repetition: the last index e >= j - 1 with t[j..e] all in class
RECURSIVE RunEnd(_, _, _)
RunEnd(t, j, class) ==
    IF j <= Len(t) /\ t[j] \in class THEN RunEnd(t, j + 1, class) ELSE j - 1

\* the regex ^key([first][rest]*) matches at position i
MatchesAt(t, i, key, first) ==
    /\ IsLineStart(t, i)
    /\ HasLiteralAt(t, i, key)
    /\ i + Len(key) <= Len(t)
    /\ t[i + Len(key)] \in first

MatchPositions(t, key, first) ==
    {i \in 1..Len(t) : MatchesAt(t, i, key, first)}

SetMin(S) == CHOOSE m \in S : \A x \in S : m <= x
SetMax(S) == CHOOSE m \in S : \A x \in S : x <= m

\* Regex::captures reports the leftmost match
PickMatch(S) == SetMin(S)

\* re.captures(content).and_then(|c| c.get(1)).map(|m| m.as_str().to_string())
Captures(t, key, first, rest) ==
    LET ps == MatchPositions(t, key, first) IN
    IF ps = {} THEN NoCapture
    ELSE LET v == PickMatch(ps) + Len(key) IN
         SubSeq(t, v, RunEnd(t, v + 1, rest))

ParseOk(ver, rel) == [ok |-> TRUE, pkgver |-> ver, pkgrel |-> rel, err |-> ""]
ParseErr(e) == [ok |-> FALSE, pkgver |-> <<>>, pkgrel |-> <<>>, err |-> e]

ParsePkgbuildRelFirst(t) ==
    LET pkgrel == Captures(t, KeyRel, Digit, Digit) IN
    IF pkgrel = NoCapture THEN ParseErr(ErrNoPkgrel)
    ELSE LET pkgver == Captures(t, KeyVer, Digit, DigitOrDot) IN
         IF pkgver = NoCapture THEN ParseErr(ErrNoPkgver)
         ELSE ParseOk(pkgver, pkgrel)

ParsePkgbuild(t) ==
    LET pkgver == Captures(t, KeyVer, Digit, DigitOrDot) IN
    IF pkgver = NoCapture THEN ParseErr(ErrNoPkgver)
    ELSE LET pkgrel == Captures(t, KeyRel, Digit, Digit) IN
         IF pkgrel = NoCapture THEN ParseErr(ErrNoPkgrel)
         ELSE ParseOk(pkgver, pkgrel)

DisplayNoDash(v) == v.pkgver \o v.pkgrel
\* impl Display for PkgVersion: "{}-{}"
Display(v) == v.pkgver \o <<"-">> \o v.pkgrel

VersionEqVerOnly(a, b) == a.pkgver = b.pkgver
\* #[derive(PartialEq)] on PkgVersion
VersionEq(a, b) == a.pkgver = b.pkgver /\ a.pkgrel = b.pkgrel


(***************************************************************************)
(* Recipe texts                                                            *)
(***************************************************************************)

MaxLines == 4

LF == <<"\n">>

\* the lines the texts are put together from
Lines ==
    { KeyVer \o <<"1">>,                      \* pkgver=1
      KeyVer \o <<"2", ".", "0", "x">>,        \* pkgver=2.0x
      KeyRel \o <<"1">>,                      \* pkgrel=1
      KeyRel \o <<"2", ".", "0", "x">>,        \* pkgrel=2.0x
      <<" ">> \o KeyVer \o <<"1">>,           \* indented by a space
      <<"\t">> \o KeyRel \o <<"1">>,          \* indented by a tab
      <<"#">> \o KeyVer \o <<"1">>,           \* commented out
      KeyVer \o <<".", "1">>,                 \* value starts with a dot
      KeyRel }                                \* no value

RECURSIVE Join(_)
Join(ls) ==
    IF Len(ls) = 0 THEN <<>>
    ELSE IF Len(ls) = 1 THEN ls[1]
    ELSE ls[1] \o LF \o Join(Tail(ls))

Texts == {Join(ls) : ls \in UNION {[1..n -> Lines] : n \in 0..MaxLines}}

NotParsed == [ok |-> FALSE, pkgver |-> <<>>, pkgrel |-> <<>>, err |-> "not run"]

Recipe(ver, rel) == KeyVer \o ver \o LF \o KeyRel \o rel \o LF

SampleVers == {<<"1", ".", "0">>, <<"1", ".", "0", "0">>}
SampleRels == {<<"2">>, <<"1", "0">>, <<"0", "2">>}
GoodRecipes == {Recipe(v, r) : v \in SampleVers, r \in SampleRels}
RecipeNoRel == KeyVer \o <<"1", ".", "0">> \o LF
RecipeNoVer == KeyRel \o <<"2">> \o LF
RecipeTexts == GoodRecipes \cup {RecipeNoRel, RecipeNoVer}

(***************************************************************************)
(* Idle values of the parts a specification does not exercise              *)
(***************************************************************************)

NoVersion == [pkgver |-> <<>>, pkgrel |-> <<>>]
NoConfig == [remote_pkgbuild |-> <<>>]
NoReport == [printed |-> FALSE, checked |-> 0, updated |-> 0,
             up_to_date |-> 0, errors |-> 0]

ParseIdle ==
    /\ text = <<>>
    /\ parsed = NotParsed

ScanOff ==
    /\ pos = 0
    /\ cp = "off"
    /\ config = NoConfig
    /\ localVer = NoVersion
    /\ remoteVer = NoVersion
    /\ results = <<>>
    /\ scanRet = "running"
    /\ httpGets = <<>>
    /\ stepLog = <<>>
    /\ report = NoReport

ScanIdle ==
    /\ dirEntries = <<>>
    /\ ScanOff

BuildIdle ==
    /\ pkgQueue = <<>>
    /\ bpos = 0
    /\ bpc = "off"
    /\ buildDir = {}
    /\ pkgsDir = {}
    /\ successCount = 0
    /\ failCount = 0
    /\ buildRet = "running"
    /\ launched = <<>>

(***************************************************************************)
(* parse_pkgbuild on its own                                               *)
(***************************************************************************)

InitParse ==
    /\ text \in Texts
    /\ parsed = NotParsed
    /\ ScanIdle
    /\ BuildIdle
    /\ exitCode = -1

\* one call parse_pkgbuild(text)
CallParsePkgbuild ==
    /\ parsed = NotParsed
    /\ parsed' = ParsePkgbuild(text)
    /\ UNCHANGED <<text, scanVars, buildVars, exitCode>>

NextParse == CallParsePkgbuild

SpecParse == InitParse /\ [][NextParse]_vars


(***************************************************************************)
(* pkgbuild.rs, config.rs: reading the files and the remote                *)
(***************************************************************************)

ErrReadLocal   == "Failed to read PKGBUILD: <path>"
ErrFetch       == "Failed to fetch remote PKGBUILD: <url>"
ErrHttpStatus  == "HTTP error fetching: <url>"
ErrReadBody    == "Failed to read response body"
ErrConfigIo    == "<io error>"
ErrConfigYaml  == "<yaml error>"

LocalFile(t)   == [read |-> "ok", body |-> t]
LocalUnreadable == [read |-> "io", body |-> <<>>]

Response(t)    == [get |-> "ok", body |-> t]
NoConnection   == [get |-> "network", body |-> <<>>]
BadStatus      == [get |-> "status", body |-> <<>>]
BadBody        == [get |-> "body", body |-> <<>>]

\* parse_local(path)
ParseLocalFile(f) ==
    IF f.read = "ok" THEN ParsePkgbuild(f.body) ELSE ParseErr(ErrReadLocal)

\* parse_remote(url), r being what the GET of url meets
ParseRemoteUrl(r) ==
    CASE r.get = "network" -> ParseErr(ErrFetch)
      [] r.get = "status"  -> ParseErr(ErrHttpStatus)
      [] r.get = "body"    -> ParseErr(ErrReadBody)
      [] OTHER             -> ParsePkgbuild(r.body)

\* RchanConfig::from_file(path), c being the state of rchan.yaml
FromFile(c, url) ==
    CASE c = "io"     -> [ok |-> FALSE, remote_pkgbuild |-> <<>>, err |-> ErrConfigIo]
      [] c = "format" -> [ok |-> FALSE, remote_pkgbuild |-> <<>>, err |-> ErrConfigYaml]
      [] OTHER        -> [ok |-> TRUE, remote_pkgbuild |-> url, err |-> ""]

(***************************************************************************)
(* scanner.rs                                                              *)
(***************************************************************************)

NoMessage == <<"", "">>

Updated(n, l, r) == [tag |-> "Updated", name |-> n, local_ver |-> l,
                     remote_ver |-> r, message |-> NoMessage]
UpToDate(n, l)   == [tag |-> "UpToDate", name |-> n, local_ver |-> l,
                     remote_ver |-> <<>>, message |-> NoMessage]
Error(n, m)      == [tag |-> "Error", name |-> n, local_ver |-> <<>>,
                     remote_ver |-> <<>>, message |-> m]

\* format!("Failed to parse rchan.yaml: {e}") and the two others
ConfigMessage(e) == <<"Failed to parse rchan.yaml: ", e>>
LocalMessageAsRemote(e) == <<"Failed to fetch remote PKGBUILD: ", e>>
LocalMessage(e)  == <<"Failed to parse local PKGBUILD: ", e>>
RemoteMessage(e) == <<"Failed to fetch remote PKGBUILD: ", e>>

\* String::cmp: byte by byte, a proper prefix is smaller
RECURSIVE NameLess(_, _)
NameLess(a, b) ==
    IF Len(b) = 0 THEN FALSE
    ELSE IF Len(a) = 0 THEN TRUE
    ELSE IF a[1] < b[1] THEN TRUE
    ELSE IF a[1] > b[1] THEN FALSE
    ELSE NameLess(Tail(a), Tail(b))

\* a stable sort: r goes after every element that is not greater
RECURSIVE InsertByName(_, _)
InsertByName(sorted, r) ==
    IF Len(sorted) = 0 THEN <<r>>
    ELSE IF NameLess(r.name, Head(sorted).name) THEN <<r>> \o sorted
    ELSE <<Head(sorted)>> \o InsertByName(Tail(sorted), r)

KeepOrder(rs) == rs
\* results.sort_by(|a, b| name_a.cmp(name_b))
RECURSIVE SortByName(_)
SortByName(rs) ==
    IF Len(rs) = 0 THEN <<>>
    ELSE InsertByName(SortByName(SubSeq(rs, 1, Len(rs) - 1)), rs[Len(rs)])

HasEitherFile(e) == e.isDir /\ (e.hasYaml \/ e.hasPkgbuild)
\* path.is_dir() and both rchan.yaml and PKGBUILD exist
IsCandidate(e) == e.isDir /\ e.hasYaml /\ e.hasPkgbuild

Current == dirEntries[pos]

\* main: std::env::current_dir()? fails
CwdFail ==
    /\ cp = "main"
    /\ cp' = "exit"
    /\ exitCode' = 1
    /\ UNCHANGED <<dirEntries, pos, config, localVer, remoteVer, results,
                   scanRet, httpGets, stepLog, report, parseVars, buildVars>>

\* scan_directory: std::fs::read_dir(base)? fails
ReadDirFail ==
    /\ cp = "main"
    /\ scanRet' = "ErrReadDir"
    /\ cp' = "returned"
    /\ UNCHANGED <<dirEntries, pos, config, localVer, remoteVer, results,
                   httpGets, stepLog, report, exitCode, parseVars, buildVars>>

\* scan_directory: read_dir succeeds, the for loop starts
ReadDirOk ==
    /\ cp = "main"
    /\ pos' = 1
    /\ cp' = "loop"
    /\ UNCHANGED <<dirEntries, config, localVer, remoteVer, results, scanRet,
                   httpGets, stepLog, report, exitCode, parseVars, buildVars>>

\* let entry = entry?; the iterator fails to read the next entry, which any
\* step of the iteration can do (the I/O error is the system's, not a
\* property of the entry)
EntryErr ==
    /\ cp = "loop" /\ pos <= Len(dirEntries)
    /\ scanRet' = "ErrEntry"
    /\ cp' = "returned"
    /\ UNCHANGED <<dirEntries, pos, config, localVer, remoteVer, results,
                   httpGets, stepLog, report, exitCode, parseVars, buildVars>>

\* if !path.is_dir() { continue; }
SkipNotDir ==
    /\ cp = "loop" /\ pos <= Len(dirEntries)
    /\ ~Current.isDir
    /\ pos' = pos + 1
    /\ UNCHANGED <<dirEntries, cp, config, localVer, remoteVer, results,
                   scanRet, httpGets, stepLog, report, exitCode, parseVars,
                   buildVars>>

\* if !rchan_yaml.exists() || !pkgbuild_path.exists() { continue; }
SkipNotCandidate ==
    /\ cp = "loop" /\ pos <= Len(dirEntries)
    /\ Current.isDir
    /\ ~IsCandidate(Current)
    /\ pos' = pos + 1
    /\ UNCHANGED <<dirEntries, cp, config, localVer, remoteVer, results,
                   scanRet, httpGets, stepLog, report, exitCode, parseVars,
                   buildVars>>

\* check_package is entered; RchanConfig::from_file(rchan_yaml)
LoadConfig ==
    /\ cp = "loop" /\ pos <= Len(dirEntries)
    /\ IsCandidate(Current)
    /\ stepLog' = Append(stepLog, <<Current.name, "config">>)
    /\ LET c == FromFile(Current.cfg, Current.name) IN
       IF c.ok
       THEN /\ config' = [remote_pkgbuild |-> c.remote_pkgbuild]
            /\ cp' = "local"
            /\ UNCHANGED <<results, pos>>
       ELSE /\ results' = Append(results,
                               Error(Current.name, ConfigMessage(c.err)))
            /\ pos' = pos + 1
            /\ UNCHANGED <<config, cp>>
    /\ UNCHANGED <<dirEntries, localVer, remoteVer, scanRet, httpGets, report,
                   exitCode, parseVars, buildVars>>

\* check_package: pkgbuild::parse_local(pkgbuild_path)
ParseLocal ==
    /\ cp = "local"
    /\ stepLog' = Append(stepLog, <<Current.name, "local">>)
    /\ LET v == ParseLocalFile(Current.local) IN
       IF v.ok
       THEN /\ localVer' = [pkgver |-> v.pkgver, pkgrel |-> v.pkgrel]
            /\ cp' = "remote"
            /\ UNCHANGED <<results, pos>>
       ELSE /\ results' = Append(results,
                               Error(Current.name, LocalMessage(v.err)))
            /\ pos' = pos + 1
            /\ cp' = "loop"
            /\ UNCHANGED localVer
    /\ UNCHANGED <<dirEntries, config, remoteVer, scanRet, httpGets, report,
                   exitCode, parseVars, buildVars>>

\* check_package: pkgbuild::parse_remote(&config.remote_pkgbuild); the URL
\* of a directory's rchan.yaml is named after the directory
ParseRemote ==
    /\ cp = "remote"
    /\ stepLog' = Append(stepLog, <<Current.name, "remote">>)
    /\ httpGets' = Append(httpGets, config.remote_pkgbuild)
    /\ LET v == ParseRemoteUrl(Current.remote) IN
       IF v.ok
       THEN /\ remoteVer' = [pkgver |-> v.pkgver, pkgrel |-> v.pkgrel]
            /\ cp' = "compare"
            /\ UNCHANGED <<results, pos>>
       ELSE /\ results' = Append(results,
                               Error(Current.name, RemoteMessage(v.err)))
            /\ pos' = pos + 1
            /\ cp' = "loop"
            /\ UNCHANGED remoteVer
    /\ UNCHANGED <<dirEntries, config, localVer, scanRet, report, exitCode,
                   parseVars, buildVars>>

\* check_package: if local_ver == remote_ver { UpToDate } else { Updated }
Compare ==
    /\ cp = "compare"
    /\ stepLog' = Append(stepLog, <<Current.name, "compare">>)
    /\ results' = Append(results,
          IF VersionEq(localVer, remoteVer)
          THEN UpToDate(Current.name, Display(localVer))
          ELSE Updated(Current.name, Display(localVer), Display(remoteVer)))
    /\ pos' = pos + 1
    /\ cp' = "loop"
    /\ UNCHANGED <<dirEntries, config, localVer, remoteVer, scanRet, httpGets,
                   report, exitCode, parseVars, buildVars>>

\* scan_directory: the loop is over; sort and return Ok(results)
ScanReturn ==
    /\ cp = "loop" /\ pos > Len(dirEntries)
    /\ results' = SortByName(results)
    /\ scanRet' = "Ok"
    /\ cp' = "returned"
    /\ UNCHANGED <<dirEntries, pos, config, localVer, remoteVer, httpGets,
                   stepLog, report, exitCode, parseVars, buildVars>>

CountTag(rs, tag) == Cardinality({k \in 1..Len(rs) : rs[k].tag = tag})

\* main: scan_directory(&cwd)? returned Err
MainScanErr ==
    /\ cp = "returned"
    /\ scanRet # "Ok"
    /\ exitCode' = 1
    /\ cp' = "exit"
    /\ UNCHANGED <<dirEntries, pos, config, localVer, remoteVer, results,
                   scanRet, httpGets, stepLog, report, parseVars, buildVars>>

\* main: the report and the summary line, then Ok(())
MainReport ==
    /\ cp = "returned"
    /\ scanRet = "Ok"
    /\ report' = IF Len(results) = 0 THEN NoReport
                 ELSE [printed |-> TRUE,
                       checked |-> Len(results),
                       updated |-> CountTag(results, "Updated"),
                       up_to_date |-> CountTag(results, "UpToDate"),
                       errors |-> CountTag(results, "Error")]
    /\ exitCode' = 0
    /\ cp' = "exit"
    /\ UNCHANGED <<dirEntries, pos, config, localVer, remoteVer, results,
                   scanRet, httpGets, stepLog, parseVars, buildVars>>

NextScan ==
    \/ CwdFail
    \/ ReadDirFail
    \/ ReadDirOk
    \/ EntryErr
    \/ SkipNotDir
    \/ SkipNotCandidate
    \/ LoadConfig
    \/ ParseLocal
    \/ ParseRemote
    \/ Compare
    \/ ScanReturn
    \/ MainScanErr
    \/ MainReport

(***************************************************************************)
(* Directories the scan is run on                                          *)
(***************************************************************************)

MaxEntries == 3

\* "B", "a", "ab", "b"
NameUniverse == {<<66>>, <<97>>, <<97, 98>>, <<98>>}

V10 == <<"1", ".", "0">>
V100 == <<"1", ".", "0", "0">>
R2 == <<"2">>

Candidate(c, l, r) ==
    [isDir |-> TRUE, hasYaml |-> TRUE, hasPkgbuild |-> TRUE,
     cfg |-> c, local |-> l, remote |-> r]

PlainFile ==
    [isDir |-> FALSE, hasYaml |-> FALSE,
     hasPkgbuild |-> FALSE, cfg |-> "io", local |-> LocalUnreadable,
     remote |-> NoConnection]
DirNoYaml ==
    [isDir |-> TRUE, hasYaml |-> FALSE,
     hasPkgbuild |-> TRUE, cfg |-> "io",
     local |-> LocalFile(Recipe(V10, R2)), remote |-> Response(Recipe(V10, R2))]
DirNoPkgbuild ==
    [isDir |-> TRUE, hasYaml |-> TRUE,
     hasPkgbuild |-> FALSE, cfg |-> "ok", local |-> LocalUnreadable,
     remote |-> Response(Recipe(V10, R2))]

ScanKinds ==
    { PlainFile, DirNoYaml,
      Candidate("ok", LocalFile(Recipe(V10, R2)), Response(Recipe(V10, R2))),
      Candidate("ok", LocalFile(Recipe(V10, R2)), Response(Recipe(V100, R2))),
      Candidate("ok", LocalFile(Recipe(V10, R2)), NoConnection) }

CheckKinds ==
    { PlainFile, DirNoYaml, DirNoPkgbuild } \cup
    { Candidate(c, l, r) :
        c \in {"ok", "io", "format"},
        l \in {LocalUnreadable} \cup {LocalFile(t) : t \in RecipeTexts},
        r \in {NoConnection, BadStatus, BadBody}
                \cup {Response(t) : t \in RecipeTexts} }

MkEntry(n, k) ==
    [name |-> n, isDir |-> k.isDir,
     hasYaml |-> k.hasYaml, hasPkgbuild |-> k.hasPkgbuild, cfg |-> k.cfg,
     local |-> k.local, remote |-> k.remote]

\* every listing of at most n entries with distinct names, in any order
Listings(n, kinds) ==
    UNION { { [k \in 1..m |-> MkEntry(ns[k], ks[k])] :
                ns \in {f \in [1..m -> NameUniverse] :
                           \A a, b \in 1..m : a # b => f[a] # f[b]},
                ks \in [1..m -> kinds] } : m \in 0..n }

ScanStart ==
    /\ pos = 0
    /\ cp = "main"
    /\ config = NoConfig
    /\ localVer = NoVersion
    /\ remoteVer = NoVersion
    /\ results = <<>>
    /\ scanRet = "running"
    /\ httpGets = <<>>
    /\ stepLog = <<>>
    /\ report = NoReport
    /\ exitCode = -1
    /\ ParseIdle
    /\ BuildIdle

InitScan ==
    /\ dirEntries \in Listings(MaxEntries, ScanKinds)
    /\ ScanStart

InitCheck ==
    /\ dirEntries \in Listings(1, CheckKinds)
    /\ ScanStart

SpecScan == InitScan /\ [][NextScan]_vars

SpecCheck == InitCheck /\ [][NextScan]_vars

(***************************************************************************)
(* builder.rs                                                              *)
(***************************************************************************)

MaxPkgs == 2

\* "build" and "pkgs"
NameBuild == <<98, 117, 105, 108, 100>>
NamePkgs  == <<112, 107, 103, 115>>

\* what a package directory holds
SourceFiles == {"PKGBUILD", "fix.patch"}
Archive == "x.pkg.tar.zst"

File(owner, f) == [from |-> owner, file |-> f]
FilesOf(n) == {File(n, f) : f \in SourceFiles}

\* left in base/build by an earlier run that did not finish
Stale == {File(<<>>, "PKGBUILD"), File(<<>>, "src")}

BuildKinds == {PlainFile, DirNoYaml, DirNoPkgbuild}

\* the filter of run_build: a directory with a PKGBUILD, not pkgs or build
IsBuildCandidate(e) ==
    e.isDir /\ e.hasPkgbuild /\ e.name # NamePkgs /\ e.name # NameBuild

\* base/build and base/pkgs as read_dir(base) lists them
OwnDirs ==
    << [name |-> NameBuild, isDir |-> TRUE,
        hasPkgbuild |-> (\E f \in buildDir : f.file = "PKGBUILD")],
       [name |-> NamePkgs, isDir |-> TRUE, hasPkgbuild |-> FALSE] >>

RECURSIVE FilterCandidates(_)
FilterCandidates(es) ==
    IF Len(es) = 0 THEN <<>>
    ELSE IF IsBuildCandidate(Head(es))
         THEN <<[name |-> Head(es).name]>> \o FilterCandidates(Tail(es))
         ELSE FilterCandidates(Tail(es))

BuildCurrent == pkgQueue[bpos].name

\* continue: the next iteration, or the end of the loop
NextPkg ==
    /\ bpos' = bpos + 1
    /\ bpc' = IF bpos < Len(pkgQueue) THEN "clean" ELSE "final"

\* create_dir_all(pkgs)?, create_dir_all(build)? or read_dir(base)? fails
BuildSetupFail ==
    /\ bpc = "main"
    /\ buildRet' = "ErrSetup"
    /\ bpc' = "returned"
    /\ UNCHANGED <<pkgQueue, bpos, buildDir, pkgsDir, successCount, failCount,
                   launched, exitCode, parseVars, scanVars>>

\* the listing is filtered and sorted; with no entry left run_build returns
Discover ==
    /\ bpc = "main"
    /\ pkgQueue' = SortByName(FilterCandidates(dirEntries \o OwnDirs))
    /\ IF Len(pkgQueue') = 0
       THEN /\ buildRet' = "Ok"
            /\ bpc' = "returned"
            /\ UNCHANGED bpos
       ELSE /\ bpos' = 1
            /\ bpc' = "clean"
            /\ UNCHANGED buildRet
    /\ UNCHANGED <<buildDir, pkgsDir, successCount, failCount, launched,
                   exitCode, parseVars, scanVars>>

\* clean_dir(&build_dir)? at the top of an iteration
CleanBefore ==
    /\ bpc = "clean"
    /\ buildDir' = {}
    /\ bpc' = "copy"
    /\ UNCHANGED <<pkgQueue, bpos, pkgsDir, successCount, failCount, buildRet,
                   launched, exitCode, parseVars, scanVars>>

\* clean_dir fails part of the way, before an iteration or at the end
CleanFail ==
    /\ bpc \in {"clean", "final"}
    /\ buildDir' \in SUBSET buildDir
    /\ buildRet' = "ErrClean"
    /\ bpc' = "returned"
    /\ UNCHANGED <<pkgQueue, bpos, pkgsDir, successCount, failCount, launched,
                   exitCode, parseVars, scanVars>>

\* copy_dir_contents(&pkg_src, &build_dir) succeeds
CopyOk ==
    /\ bpc = "copy"
    /\ buildDir' = buildDir \cup FilesOf(BuildCurrent)
    /\ bpc' = "makepkg"
    /\ UNCHANGED <<pkgQueue, bpos, pkgsDir, successCount, failCount, buildRet,
                   launched, exitCode, parseVars, scanVars>>

\* copy_dir_contents fails after copying some of the files
CopyFail ==
    /\ bpc = "copy"
    /\ \E done \in SUBSET FilesOf(BuildCurrent) :
          /\ done # FilesOf(BuildCurrent)
          /\ buildDir' = buildDir \cup done
    /\ failCount' = failCount + 1
    /\ NextPkg
    /\ UNCHANGED <<pkgQueue, pkgsDir, successCount, buildRet, launched,
                   exitCode, parseVars, scanVars>>

\* Command::new("makepkg")...status() cannot start the command
MakepkgLaunchFail ==
    /\ bpc = "makepkg"
    /\ buildRet' = "ErrLaunch"
    /\ bpc' = "returned"
    /\ UNCHANGED <<pkgQueue, bpos, buildDir, pkgsDir, successCount, failCount,
                   launched, exitCode, parseVars, scanVars>>

\* makepkg runs in build/ and exits with a failure status
MakepkgNonzero ==
    /\ bpc = "makepkg"
    /\ launched' = Append(launched, <<BuildCurrent, buildDir>>)
    /\ \E out \in SUBSET {File(BuildCurrent, "src")} :
          buildDir' = buildDir \cup out
    /\ failCount' = failCount + 1
    /\ NextPkg
    /\ UNCHANGED <<pkgQueue, pkgsDir, successCount, buildRet, exitCode,
                   parseVars, scanVars>>

\* makepkg runs in build/ and exits successfully, with or without an archive
MakepkgSuccess ==
    /\ bpc = "makepkg"
    /\ launched' = Append(launched, <<BuildCurrent, buildDir>>)
    /\ \E out \in SUBSET {File(BuildCurrent, Archive)} :
          buildDir' = buildDir \cup out \cup {File(BuildCurrent, "src")}
    /\ bpc' = "collect"
    /\ UNCHANGED <<pkgQueue, bpos, pkgsDir, successCount, failCount, buildRet,
                   exitCode, parseVars, scanVars>>

Archives == {f \in buildDir : f.file = Archive}

\* the archives are moved to pkgs/ and the candidate is counted
Collect ==
    /\ bpc = "collect"
    /\ pkgsDir' = pkgsDir \cup Archives
    /\ buildDir' = buildDir \ Archives
    /\ IF Archives # {}
       THEN successCount' = successCount + 1 /\ UNCHANGED failCount
       ELSE failCount' = failCount + 1 /\ UNCHANGED successCount
    /\ NextPkg
    /\ UNCHANGED <<pkgQueue, buildRet, launched, exitCode, parseVars,
                   scanVars>>

\* read_dir(&build_dir)?, an entry of it, or std::fs::rename fails
CollectFail ==
    /\ bpc = "collect"
    /\ buildRet' = "ErrCollect"
    /\ bpc' = "returned"
    /\ UNCHANGED <<pkgQueue, bpos, buildDir, pkgsDir, successCount, failCount,
                   launched, exitCode, parseVars, scanVars>>

\* the final clean_dir(&build_dir)?, the summary, Ok(())
FinalClean ==
    /\ bpc = "final"
    /\ buildDir' = {}
    /\ buildRet' = "Ok"
    /\ bpc' = "returned"
    /\ UNCHANGED <<pkgQueue, bpos, pkgsDir, successCount, failCount, launched,
                   exitCode, parseVars, scanVars>>

\* main: return builder::run_build(&cwd)
MainBuildExit ==
    /\ bpc = "returned"
    /\ exitCode' = IF buildRet = "Ok" THEN 0 ELSE 1
    /\ bpc' = "exit"
    /\ UNCHANGED <<pkgQueue, bpos, buildDir, pkgsDir, successCount, failCount,
                   buildRet, launched, parseVars, scanVars>>

NextBuild ==
    \/ BuildSetupFail
    \/ Discover
    \/ CleanBefore
    \/ CleanFail
    \/ CopyOk
    \/ CopyFail
    \/ MakepkgLaunchFail
    \/ MakepkgNonzero
    \/ MakepkgSuccess
    \/ Collect
    \/ CollectFail
    \/ FinalClean
    \/ MainBuildExit

InitBuild ==
    /\ dirEntries \in Listings(MaxPkgs, BuildKinds)
    /\ ScanOff
    /\ ParseIdle
    /\ pkgQueue = <<>>
    /\ bpos = 0
    /\ bpc = "main"
    /\ buildDir \in {{}, Stale}
    /\ pkgsDir = {}
    /\ successCount = 0
    /\ failCount = 0
    /\ buildRet = "running"
    /\ launched = <<>>
    /\ exitCode = -1

SpecBuild == InitBuild /\ [][NextBuild]_vars

(***************************************************************************)
(* Properties of parse_pkgbuild, stated on the lines of the text           *)
(***************************************************************************)

\* index of the first line feed of t, or Len(t) + 1
RECURSIVE FirstLF(_, _)
FirstLF(t, i) == IF i > Len(t) \/ t[i] = "\n" THEN i ELSE FirstLF(t, i + 1)

RECURSIVE SplitLines(_)
SplitLines(t) ==
    LET n == FirstLF(t, 1) IN
    IF n > Len(t) THEN <<t>>
    ELSE <<SubSeq(t, 1, n - 1)>> \o SplitLines(SubSeq(t, n + 1, Len(t)))

\* line l is key followed by a digit, from its first column
AssignsAtColumn0(l, key) ==
    /\ Len(l) > Len(key)
    /\ \A k \in 1..Len(key) : l[k] = key[k]
    /\ l[Len(key) + 1] \in Digit

RECURSIVE StripLeadingSpace(_)
StripLeadingSpace(l) ==
    IF Len(l) > 0 /\ Head(l) \in {" ", "\t"} THEN StripLeadingSpace(Tail(l))
    ELSE l

\* the same, leading spaces and tabs ignored
AssignsIgnoringIndent(l, key) == AssignsAtColumn0(StripLeadingSpace(l), key)

\* the value a matching line assigns: the longest run of class after the key
AssignedValue(l, key, class) ==
    LET n == SetMax({m \in 0..(Len(l) - Len(key)) :
                        \A k \in 1..m : l[Len(key) + k] \in class})
    IN SubSeq(l, Len(key) + 1, Len(key) + n)

HasLine(t, key) ==
    LET ls == SplitLines(t) IN
    \E k \in 1..Len(ls) : AssignsAtColumn0(ls[k], key)

HasLooseLine(t, key) ==
    LET ls == SplitLines(t) IN
    \E k \in 1..Len(ls) : AssignsIgnoringIndent(ls[k], key)

FirstLine(t, key) ==
    LET ls == SplitLines(t) IN
    ls[SetMin({k \in 1..Len(ls) : AssignsAtColumn0(ls[k], key)})]

FirstLooseLine(t, key) ==
    LET ls == SplitLines(t) IN
    StripLeadingSpace(
        ls[SetMin({k \in 1..Len(ls) : AssignsIgnoringIndent(ls[k], key)})])

ParseDone == parsed # NotParsed

\* C5: parse_pkgbuild looks for pkgver first.  A text with no pkgver line
\* fails with the pkgver error whether or not it has a pkgrel line; a text
\* with a pkgver line and no pkgrel line fails with the pkgrel error; the
\* call succeeds exactly when both lines exist, in whichever order.
C5_PkgverCheckedFirst ==
    ParseDone =>
        /\ ~HasLine(text, KeyVer) => ~parsed.ok /\ parsed.err = ErrNoPkgver
        /\ HasLine(text, KeyVer) /\ ~HasLine(text, KeyRel)
               => ~parsed.ok /\ parsed.err = ErrNoPkgrel
        /\ parsed.ok <=> HasLine(text, KeyVer) /\ HasLine(text, KeyRel)

\* a text with neither line was parsed and the error names pkgver
C5_Witness ==
    /\ ParseDone
    /\ ~HasLine(text, KeyVer)
    /\ ~HasLine(text, KeyRel)
    /\ Len(text) > 0
    /\ parsed.err = ErrNoPkgver

HasBothFiles(e) == e.isDir /\ e.hasYaml /\ e.hasPkgbuild

EntryNamed(n) ==
    dirEntries[CHOOSE k \in 1..Len(dirEntries) : dirEntries[k].name = n]

GoodText(t) == HasLine(t, KeyVer) /\ HasLine(t, KeyRel)

\* the version a good text states, read off its lines
LinesVersion(t) ==
    [pkgver |-> AssignedValue(FirstLine(t, KeyVer), KeyVer, DigitOrDot),
     pkgrel |-> AssignedValue(FirstLine(t, KeyRel), KeyRel, Digit)]

Canonical(v) == v.pkgver \o <<"-">> \o v.pkgrel

LocalGood(e)  == e.local.read = "ok" /\ GoodText(e.local.body)
RemoteGood(e) == e.remote.get = "ok" /\ GoodText(e.remote.body)

\* the first step of check_package that fails for e, from e alone
FailingStep(e) ==
    IF e.cfg # "ok" THEN "config"
    ELSE IF ~LocalGood(e) THEN "local"
    ELSE IF ~RemoteGood(e) THEN "remote"
    ELSE "none"

SameVersion(e) ==
    /\ LinesVersion(e.local.body).pkgver = LinesVersion(e.remote.body).pkgver
    /\ LinesVersion(e.local.body).pkgrel = LinesVersion(e.remote.body).pkgrel

\* the outcome e must get, from e alone
ExpectedFor(e, r) ==
    IF FailingStep(e) # "none" THEN r.tag = "Error"
    ELSE IF SameVersion(e)
         THEN /\ r.tag = "UpToDate"
              /\ r.local_ver = Canonical(LinesVersion(e.local.body))
         ELSE /\ r.tag = "Updated"
              /\ r.local_ver = Canonical(LinesVersion(e.local.body))
              /\ r.remote_ver = Canonical(LinesVersion(e.remote.body))

RECURSIVE StepsOf(_, _)
StepsOf(log, n) ==
    IF Len(log) = 0 THEN <<>>
    ELSE IF Head(log)[1] = n THEN <<Head(log)[2]>> \o StepsOf(Tail(log), n)
    ELSE StepsOf(Tail(log), n)

GetsOf(n) == Cardinality({k \in 1..Len(httpGets) : httpGets[k] = n})

StepOrder == <<"config", "local", "remote", "compare">>

IsPrefix(a, b) == Len(a) <= Len(b) /\ a = SubSeq(b, 1, Len(a))

\* a is before b in byte-wise lexicographic order
LexLess(a, b) ==
    \E k \in 1..Len(b) :
        /\ k - 1 <= Len(a)
        /\ \A m \in 1..(k - 1) : a[m] = b[m]
        /\ (Len(a) = k - 1 \/ a[k] < b[k])

\* C1: when scan_directory returns the list, it holds exactly one outcome
\* for every entry that is a directory with both rchan.yaml and PKGBUILD,
\* none for any other entry, and each outcome is the one that candidate's
\* own config, local recipe and remote response give, whatever happened to
\* the other entries.
C1_OneOutcomePerCandidate ==
    scanRet = "Ok" =>
        /\ \A k \in 1..Len(dirEntries) :
              HasBothFiles(dirEntries[k]) =>
                 Cardinality({j \in 1..Len(results) :
                                 results[j].name = dirEntries[k].name}) = 1
        /\ \A j \in 1..Len(results) :
              \E k \in 1..Len(dirEntries) :
                 /\ dirEntries[k].name = results[j].name
                 /\ HasBothFiles(dirEntries[k])
                 /\ ExpectedFor(dirEntries[k], results[j])

\* three entries: a candidate whose remote is down, then a directory that
\* is no candidate, then a candidate that is checked; two outcomes
C1_Witness ==
    /\ scanRet = "Ok"
    /\ Len(dirEntries) = 3
    /\ HasBothFiles(dirEntries[1]) /\ FailingStep(dirEntries[1]) = "remote"
    /\ dirEntries[2].isDir /\ ~HasBothFiles(dirEntries[2])
    /\ HasBothFiles(dirEntries[3]) /\ FailingStep(dirEntries[3]) = "none"
    /\ Len(results) = 2
    /\ \E j \in 1..2 : results[j].tag = "Error"
    /\ \E j \in 1..2 : results[j].tag = "Updated"

\* C2: check_package runs config, local, remote, compare in that order and
\* stops at the first step that fails: the outcome is Error, its message
\* names that step, no later step runs, and no GET is sent unless config
\* and local recipe were both fine.  A local recipe without pkgrel gives
\* the local message with the pkgrel error, whatever the remote is.
C2_FirstFailureDecides ==
    /\ \A k \in 1..Len(dirEntries) :
          LET n == dirEntries[k].name IN
          /\ IsPrefix(StepsOf(stepLog, n), StepOrder)
          /\ GetsOf(n) = IF Len(StepsOf(stepLog, n)) >= 3 THEN 1 ELSE 0
    /\ \A j \in 1..Len(results) :
          LET r == results[j]
              e == EntryNamed(r.name)
              st == StepsOf(stepLog, r.name)
          IN
          /\ r.tag = "Error" <=> FailingStep(e) # "none"
          /\ FailingStep(e) = "config" =>
                /\ r.message[1] = "Failed to parse rchan.yaml: "
                /\ st = <<"config">>
          /\ FailingStep(e) = "local" =>
                /\ r.message[1] = "Failed to parse local PKGBUILD: "
                /\ st = <<"config", "local">>
          /\ FailingStep(e) = "remote" =>
                /\ r.message[1] = "Failed to fetch remote PKGBUILD: "
                /\ st = <<"config", "local", "remote">>
          /\ FailingStep(e) = "none" => st = StepOrder
          /\ ( /\ e.cfg = "ok"
               /\ e.local.read = "ok"
               /\ HasLine(e.local.body, KeyVer)
               /\ ~HasLine(e.local.body, KeyRel) ) =>
                r.message = <<"Failed to parse local PKGBUILD: ", ErrNoPkgrel>>

\* a local recipe without pkgrel, the remote answering with a good recipe:
\* the local message, and no GET was sent
C2_Witness ==
    /\ Len(results) = 1
    /\ LET e == EntryNamed(results[1].name) IN
       /\ e.cfg = "ok"
       /\ e.local = LocalFile(RecipeNoRel)
       /\ RemoteGood(e)
    /\ results[1].message = <<"Failed to parse local PKGBUILD: ", ErrNoPkgrel>>
    /\ httpGets = <<>>

\* C3: when all three steps succeed the outcome is UpToDate with the local
\* "pkgver-pkgrel" exactly when the two pkgver strings are equal and the two
\* pkgrel strings are equal, and Updated with both strings otherwise; the
\* strings are compared as strings.
C3_StringEquality ==
    \A j \in 1..Len(results) :
        LET r == results[j]
            e == EntryNamed(r.name)
        IN FailingStep(e) = "none" =>
            LET l == LinesVersion(e.local.body)
                m == LinesVersion(e.remote.body)
            IN IF l.pkgver = m.pkgver /\ l.pkgrel = m.pkgrel
               THEN /\ r.tag = "UpToDate"
                    /\ r.local_ver = Canonical(l)
               ELSE /\ r.tag = "Updated"
                    /\ r.local_ver = Canonical(l)
                    /\ r.remote_ver = Canonical(m)

\* local 1.0-2 against remote 1.0-10 is reported as Updated
C3_Witness ==
    /\ Len(results) = 1
    /\ results[1].tag = "Updated"
    /\ results[1].local_ver = <<"1", ".", "0", "-", "2">>
    /\ results[1].remote_ver = <<"1", ".", "0", "-", "1", "0">>

\* C4: the returned list is in ascending byte-wise lexicographic order of
\* the package names, whatever the enumeration order and the variants.
C4_SortedByName ==
    scanRet = "Ok" =>
        \A j, k \in 1..Len(results) :
            j < k => LexLess(results[j].name, results[k].name)

\* "b", "ab", "B" enumerated in that order come back as "B", "ab", "b",
\* one of each variant
C4_Witness ==
    /\ scanRet = "Ok"
    /\ Len(dirEntries) = 3
    /\ dirEntries[1].name = <<98>>
    /\ dirEntries[2].name = <<97, 98>>
    /\ dirEntries[3].name = <<66>>
    /\ Len(results) = 3
    /\ results[1].name = <<66>>
    /\ results[2].name = <<97, 98>>
    /\ results[3].name = <<98>>
    /\ {results[j].tag : j \in 1..3} = {"Updated", "UpToDate", "Error"}

\* C6 as claimed: once read_dir(base) has succeeded the scan command ends
\* with scan_directory returning Ok and exit status 0.
C6_OnlyListingFailureAborts ==
    cp = "exit" /\ pos >= 1 => scanRet = "Ok" /\ exitCode = 0

\* C10: an Updated outcome never carries two equal strings, and two good
\* recipes whose "pkgver-pkgrel" strings are equal are reported UpToDate.
C10_UpdatedStringsDiffer ==
    \A j \in 1..Len(results) :
        LET r == results[j]
            e == EntryNamed(r.name)
        IN /\ r.tag = "Updated" => r.local_ver # r.remote_ver
           /\ ( /\ FailingStep(e) = "none"
                /\ Canonical(LinesVersion(e.local.body))
                     = Canonical(LinesVersion(e.remote.body)) )
                 => r.tag = "UpToDate"

\* 1.0 with 02 against 1.00 with 2: the digits agree, the strings do not
C10_Witness ==
    /\ Len(results) = 1
    /\ results[1].tag = "Updated"
    /\ results[1].local_ver = <<"1", ".", "0", "-", "0", "2">>
    /\ results[1].remote_ver = <<"1", ".", "0", "0", "-", "2">>


(***************************************************************************)
(* Properties of the build                                                 *)
(***************************************************************************)

BuildOver == bpc \in {"returned", "exit"}

\* C7 as claimed: whatever the copy, the launch, the run and the collection
\* do for each candidate, run_build goes through all candidates, counts each
\* once, and returns Ok (failures of the setup and of clean_dir apart).
C7_BuildNeverAborts ==
    BuildOver /\ buildRet \notin {"ErrSetup", "ErrClean"} =>
        /\ buildRet = "Ok"
        /\ successCount + failCount = Len(pkgQueue)

\* C8 as claimed: makepkg only ever starts on files copied from its own
\* candidate, and once a candidate was started the scratch area is empty
\* when run_build returns (failures of clean_dir itself apart).
C8_ScratchCleared ==
    /\ \A k \in 1..Len(launched) :
          \A f \in launched[k][2] : f.from = launched[k][1]
    /\ BuildOver /\ bpos >= 1 /\ buildRet \notin {"ErrSetup", "ErrClean"} =>
          buildDir = {}

====
